---------------------------- MODULE Spec2Model ----------------------------
(***************************************************************************)
(* Model of src/data_provider/wiki.rs: the promotional-code extraction     *)
(* (PromotionalCodes::from with get_cell_content), the snapshot difference *)
(* (PromotionalCodes::difference) and the extraction pass                  *)
(* (update_wiki_resource with wiki_resource_change_callback).              *)
(*                                                                         *)
(* Strings are TLA+ strings (\o, Len and SubSeq act on them as on Rust's   *)
(* String).  Option<T> is a sequence of length at most one: None is <<>>   *)
(* and Some(v) is <<v>>, so that Some("") differs from None.               *)
(***************************************************************************)
EXTENDS Integers, Sequences, FiniteSets, TLC

VARIABLES
    nodes,      \* from: the top-level node sequence handed to from()
    idx,        \* from: position of the `for node in nodes` loop (1-based)
    st,         \* from: after_available, and how the call has ended so far
    cur,        \* difference: self
    prev,       \* difference: other
    diff,       \* difference: the value returned (None before the call)
    cell,       \* get_cell_content_as_string: the cell's node sequence
    flat,       \* get_cell_content_as_string: the String returned (None before)
    store,      \* persist: the persisted snapshot of the resource (Option)
    passes,     \* update_wiki_resource: one record per pass, by pass id
    sink        \* println! of wiki_resource_change_callback: what was printed

fromVars == <<nodes, idx, st>>
diffVars == <<cur, prev, diff>>
passVars == <<store, passes, sink>>
flatVars == <<cell, flat>>
vars == <<nodes, idx, st, cur, prev, diff, cell, flat, store, passes, sink>>

\* ------------------------------------------------------------------ bounds

\* Longest top-level node sequence of a document given to the locator.
MaxNodes == 4
\* Most columns of a header row (a data row may have one cell more).
MaxCols == 2
\* Most data rows of a table.
MaxRows == 2
\* Most records of a snapshot given to difference.
MaxSnap == 3
\* Most extraction passes started in one behaviour.
MaxPasses == 3
\* Most nodes of a cell given to the flattener, at all depths together.
MaxCellNodes == 4

\* ------------------------------------------------------------------ data

None == <<>>
Some(v) == <<v>>

\* parse_wiki_text::Node, the variants wiki.rs matches on; every other
\* variant is the one kind "Other".
Text(v) == [kind |-> "Text", value |-> v]
Link(t) == [kind |-> "Link", text |-> t]
Table(r) == [kind |-> "Table", rows |-> r]
Other == [kind |-> "Other"]
\* A variant wiki.rs does not match on that has child nodes of its own (such
\* as Node::Tag).
Tag(ns) == [kind |-> "Tag", nodes |-> ns]

\* parse_wiki_text::TableCell and TableRow, the fields wiki.rs reads.
Cell(c) == [content |-> c]
Row(c) == [cells |-> c]

\* PromotionalCode::new()
NewCode ==
    [code |-> None, server |-> None, reward |-> None,
     discovered |-> None, expires |-> None]

\* The literals of from().
AVAILABLE == "== Available =="
EXPIRED == "== Expired =="

\* str::contains: pattern occurs as a substring of value.
Contains(value, pattern) ==
    \E i \in 1..(Len(value) - Len(pattern) + 1) :
        SubSeq(value, i, i + Len(pattern) - 1) = pattern

\* All sequences over S of length 0..n.
SeqsUpTo(S, n) == UNION {[1..k -> S] : k \in 0..n}

\* ------------------------------------------------------- get_cell_content

RECURSIVE GetCellContentOneLevel(_)
\* get_cell_content that takes the Text nodes of a Link's display content and
\* does not descend into the links inside it.
GetCellContentOneLevel(ns) ==
    IF ns = <<>> THEN <<>>
    ELSE LET node == Head(ns)
             texts == IF node.kind = "Link"
                      THEN SelectSeq(node.text, LAMBDA n : n.kind = "Text")
                      ELSE <<>>
             here == CASE node.kind = "Text" -> <<node.value>>
                       [] node.kind = "Link" ->
                            [k \in 1..Len(texts) |-> texts[k].value]
                       [] OTHER -> <<>>
         IN  here \o GetCellContentOneLevel(Tail(ns))

RECURSIVE get_cell_content(_)
\* The texts a cell shows, in document order: a Text node gives its value, a
\* Link node the texts of its display content, any other node nothing.
get_cell_content(ns) ==
    IF ns = <<>> THEN <<>>
    ELSE LET node == Head(ns)
             here == CASE node.kind = "Text" -> <<node.value>>
                       [] node.kind = "Link" -> get_cell_content(node.text)
                       [] OTHER -> <<>>
         IN  here \o get_cell_content(Tail(ns))

RECURSIVE Join(_)
\* [&str]::join("")
Join(ss) == IF ss = <<>> THEN "" ELSE Head(ss) \o Join(Tail(ss))

get_cell_content_as_string(ns) == Join(get_cell_content(ns))

\* ------------------------------------------------------------------ from

\* AssignField with the arm of "Expires" assigning the field of "Discovered".
AssignFieldWrongArm(code, header, value) ==
    CASE header = "Code" -> [code EXCEPT !.code = Some(value)]
      [] header = "Server" -> [code EXCEPT !.server = Some(value)]
      [] header = "Reward" -> [code EXCEPT !.reward = Some(value)]
      [] header = "Discovered" -> [code EXCEPT !.discovered = Some(value)]
      [] header = "Expires" -> [code EXCEPT !.discovered = Some(value)]
      [] OTHER -> code

\* AssignField that compares the header without regard to case: "code" names
\* the code field as "Code" does.
AssignFieldAnyCase(code, header, value) ==
    CASE header \in {"Code", "code"} -> [code EXCEPT !.code = Some(value)]
      [] header \in {"Server", "server"} -> [code EXCEPT !.server = Some(value)]
      [] header \in {"Reward", "reward"} -> [code EXCEPT !.reward = Some(value)]
      [] header \in {"Discovered", "discovered"} ->
           [code EXCEPT !.discovered = Some(value)]
      [] header \in {"Expires", "expires"} -> [code EXCEPT !.expires = Some(value)]
      [] OTHER -> code

\* The match of lines 117-124: the field a header text names gets the value.
AssignField(code, header, value) ==
    CASE header = "Code" -> [code EXCEPT !.code = Some(value)]
      [] header = "Server" -> [code EXCEPT !.server = Some(value)]
      [] header = "Reward" -> [code EXCEPT !.reward = Some(value)]
      [] header = "Discovered" -> [code EXCEPT !.discovered = Some(value)]
      [] header = "Expires" -> [code EXCEPT !.expires = Some(value)]
      [] OTHER -> code

RECURSIVE MapCellsBreak(_, _, _, _)
\* MapCells with `_ => break` for `_ => {}`: the row's loop ends at the first
\* unrecognized header.
MapCellsBreak(headers, cells, i, code) ==
    IF i > Len(cells) THEN [panic |-> FALSE, code |-> code]
    ELSE IF i > Len(headers) THEN [panic |-> TRUE, code |-> code]
    ELSE IF headers[i] \notin {"Code", "Server", "Reward", "Discovered", "Expires"}
    THEN [panic |-> FALSE, code |-> code]
    ELSE MapCellsBreak(headers, cells, i + 1,
                       AssignField(code, headers[i],
                                   get_cell_content_as_string(cells[i].content)))

RECURSIVE MapCells(_, _, _, _)
\* The loop of lines 114-125 from cell i on: headers[idx] with idx past the
\* end of headers is an index out of bounds, which panics.
MapCells(headers, cells, i, code) ==
    IF i > Len(cells) THEN [panic |-> FALSE, code |-> code]
    ELSE IF i > Len(headers) THEN [panic |-> TRUE, code |-> code]
    ELSE MapCells(headers, cells, i + 1,
                  AssignField(code, headers[i],
                              get_cell_content_as_string(cells[i].content)))

\* The closure of lines 111-127: one data row to one PromotionalCode.
MapRow(headers, row) == MapCells(headers, row.cells, 1, NewCode)

\* Lines 102-108: the header row's cells, flattened.
Headers(row) ==
    [i \in 1..Len(row.cells) |-> get_cell_content_as_string(row.cells[i].content)]

\* MapTable that collects no record for a data row that set no field.
MapTableSkipsBlank(rows) ==
    IF rows = <<>> THEN [status |-> "panic", codes |-> <<>>]
    ELSE LET headers == Headers(rows[1])
             mapped == [r \in 1..(Len(rows) - 1) |-> MapRow(headers, rows[r + 1])]
         IN  IF \E r \in DOMAIN mapped : mapped[r].panic
             THEN [status |-> "panic", codes |-> <<>>]
             ELSE [status |-> "table",
                   codes |-> SelectSeq([r \in DOMAIN mapped |-> mapped[r].code],
                                       LAMBDA c : c # NewCode)]

\* Lines 100-129, the arm of a Table met after_available: the first row is
\* the header row (unwrap of None panics when there is no row), every later
\* row is mapped, and the call returns at line 129 (status "table").
MapTable(rows) ==
    IF rows = <<>> THEN [status |-> "panic", codes |-> <<>>]
    ELSE LET headers == Headers(rows[1])
             mapped == [r \in 1..(Len(rows) - 1) |-> MapRow(headers, rows[r + 1])]
         IN  IF \E r \in DOMAIN mapped : mapped[r].panic
             THEN [status |-> "panic", codes |-> <<>>]
             ELSE [status |-> "table",
                   codes |-> [r \in DOMAIN mapped |-> mapped[r].code]]

\* AfterText with the two `if`s of lines 88-93 in the other order: a value
\* holding both markers sets the flag.
AfterTextEndFirst(after_available, value) ==
    LET a == IF Contains(value, EXPIRED) THEN FALSE ELSE after_available
    IN  IF Contains(value, AVAILABLE) THEN TRUE ELSE a

\* AfterText with `else if` for the second `if`: a value holding both
\* markers sets the flag.
AfterTextElseIf(after_available, value) ==
    IF Contains(value, AVAILABLE) THEN TRUE
    ELSE IF Contains(value, EXPIRED) THEN FALSE
    ELSE after_available

\* Lines 87-94: the flag after a Text node.
AfterText(after_available, value) ==
    LET a == IF Contains(value, AVAILABLE) THEN TRUE ELSE after_available
    IN  IF Contains(value, EXPIRED) THEN FALSE ELSE a

\* FromStart with the flag set from the start.
FromStartInside == [after_available |-> TRUE, status |-> "scan", codes |-> <<>>]

\* Line 83 and the loop's entry.  status is where the call stands: "scan" in
\* the loop, "table" returned at line 129, "none" returned at line 135,
\* "panic" unwound.
FromStart == [after_available |-> FALSE, status |-> "scan", codes |-> <<>>]

\* FromNode without the `return` of line 129: the scan goes on after a table
\* was mapped, so the last table of the section wins.
FromNodeNoReturn(s, node) ==
    CASE node.kind = "Text" ->
           [s EXCEPT !.after_available = AfterText(s.after_available, node.value)]
      [] node.kind = "Table" ->
           IF ~s.after_available THEN s
           ELSE LET m == MapTable(node.rows)
                IN  IF m.status = "panic"
                    THEN [s EXCEPT !.status = m.status, !.codes = m.codes]
                    ELSE [s EXCEPT !.codes = m.codes]
      [] OTHER -> s

\* Lines 86-132: one iteration of `for node in nodes`.
FromNode(s, node) ==
    CASE node.kind = "Text" ->
           [s EXCEPT !.after_available = AfterText(s.after_available, node.value)]
      [] node.kind = "Table" ->
           IF ~s.after_available THEN s
           ELSE LET m == MapTable(node.rows)
                IN  [s EXCEPT !.status = m.status, !.codes = m.codes]
      [] OTHER -> s

\* Line 135: the loop ran out of nodes (status "none").
FromEmpty(s) == [s EXCEPT !.status = "none", !.codes = <<>>]

RECURSIVE FromLoop(_, _, _)
FromLoop(ns, i, s) ==
    IF s.status # "scan" THEN s
    ELSE IF i > Len(ns) THEN FromEmpty(s)
    ELSE FromLoop(ns, i + 1, FromNode(s, ns[i]))

\* PromotionalCodes::from as one call: status is "table" or "none" (the call
\* returned codes) or "panic".
From(ns) == FromLoop(ns, 1, FromStart)


\* ------------------------------------------------------------ difference

\* CodeEq that compares the code field alone.
CodeEqCodeOnly(a, b) == a.code = b.code

\* derive(PartialEq) on PromotionalCode (lines 26-33): field by field.
CodeEq(a, b) ==
    /\ a.code = b.code
    /\ a.server = b.server
    /\ a.reward = b.reward
    /\ a.discovered = b.discovered
    /\ a.expires = b.expires

\* Vec::contains that looks at the first element of the vector only.
VecContainsFirst(codes, code) == codes # <<>> /\ CodeEq(codes[1], code)

\* Vec::contains (line 77)
VecContains(codes, code) == \E j \in 1..Len(codes) : CodeEq(codes[j], code)

RECURSIVE DifferenceLoopNoNot(_, _, _, _)
\* DifferenceLoop without the `!` of line 77: it keeps what other contains.
DifferenceLoopNoNot(self, other, i, difference) ==
    IF i > Len(self) THEN difference
    ELSE DifferenceLoopNoNot(self, other, i + 1,
                             IF VecContains(other, self[i])
                             THEN Append(difference, self[i])
                             ELSE difference)

RECURSIVE DifferenceLoop(_, _, _, _)
\* The loop of lines 76-78 from element i on.
DifferenceLoop(self, other, i, difference) ==
    IF i > Len(self) THEN difference
    ELSE DifferenceLoop(self, other, i + 1,
                        IF ~VecContains(other, self[i])
                        THEN Append(difference, self[i])
                        ELSE difference)

\* difference() that returns each new record once, however often self holds it.
DifferenceOnce(self, other) ==
    LET RECURSIVE Once(_)
        Once(s) == IF s = <<>> THEN <<>>
                   ELSE LET r == Once(SubSeq(s, 1, Len(s) - 1))
                        IN  IF VecContains(r, s[Len(s)]) THEN r
                            ELSE Append(r, s[Len(s)])
    IN  Once(DifferenceLoop(self, other, 1, <<>>))

\* PromotionalCodes::difference (lines 73-80)
Difference(self, other) == DifferenceLoop(self, other, 1, <<>>)

\* PromotionalCodes::empty (lines 69-71)
Empty(codes) == Len(codes) = 0

\* wiki_resource_change_callback that prints without asking empty().
ChangeCallbackAlwaysPrints(previous, current) ==
    LET difference == IF previous = None THEN current
                      ELSE Difference(current, previous[1])
    IN  [difference |-> difference, printed |-> <<difference>>]

\* wiki_resource_change_callback (lines 200-211): the difference it computes
\* and the values it hands to println!, in order.
ChangeCallback(previous, current) ==
    LET difference == IF previous = None THEN current
                      ELSE Difference(current, previous[1])
    IN  [difference |-> difference,
         printed |-> IF Empty(difference) THEN <<>> ELSE <<difference>>]

\* ------------------------------------------------ the inputs of from()

\* Top-level Text values: the start marker inside a longer heading, the end
\* marker, both markers in either order, and a text with neither.
TextAvailable == Text("=== Available ===")
TextExpired == Text("== Expired ==\n")
TextBothAE == Text("== Available ==== Expired ==")
TextBothEA == Text("== Expired ==== Available ==")
TextPlain == Text("Available")

HeaderRow(names) == Row([i \in 1..Len(names) |-> Cell(<<Text(names[i])>>)])
TextRow(values) == Row([i \in 1..Len(values) |-> Cell(<<Text(values[i])>>)])

\* The table of the specification's end-to-end scenario, and a second one
\* that repeats its row and adds another.
TableA ==
    Table(<<HeaderRow(<<"Code", "Server", "Reward">>),
            TextRow(<<"ABC123", "All", "Primogems x5">>)>>)
TableB ==
    Table(<<HeaderRow(<<"Code", "Server", "Reward">>),
            TextRow(<<"ABC123", "All", "Primogems x5">>),
            TextRow(<<"XYZ", "EU">>)>>)
TableNoRows == Table(<<>>)

NodePool ==
    {TextAvailable, TextExpired, TextBothAE, TextBothEA, TextPlain, Other,
     TableA, TableNoRows}

\* Documents that exercise the locator.
LocatorDocs == SeqsUpTo(NodePool, MaxNodes)

\* Header cells: the five recognized names and one unrecognized, some
\* written with inline markup that flattens to the name.
HeaderCellPool ==
    {Cell(<<Text("Code")>>),
     Cell(<<Link(<<Text("Server")>>)>>),
     Cell(<<Text("Re"), Text("ward")>>),
     Cell(<<Text("Discovered"), Other>>),
     Cell(<<Link(<<Text("Ex"), Link(<<Text("pires")>>)>>)>>),
     Cell(<<Text("Notes")>>)}

\* Data cells: the cell of column c of a data row is taken from this cycle,
\* so that neighbouring columns never hold the same text.
CellCycle ==
    <<Cell(<<Text("A1")>>),
      Cell(<<>>),
      Cell(<<Link(<<Text("B"), Text("2")>>)>>),
      Cell(<<Text("C"), Other, Link(<<Text("3")>>)>>),
      Cell(<<Text("")>>)>>

DataRow(width, shift) ==
    Row([c \in 1..width |-> CellCycle[((c + shift - 1) % Len(CellCycle)) + 1]])

\* Tables: any header row of up to MaxCols cells, and up to MaxRows data rows
\* of any width up to one more than the widest header, their cells taken from
\* the cycle at a shift common to the table.
MapperTables ==
    {Table(<<Row(h)>> \o [r \in 1..Len(w) |-> DataRow(w[r], s)]) :
        h \in SeqsUpTo(HeaderCellPool, MaxCols),
        w \in SeqsUpTo(0..(MaxCols + 1), MaxRows),
        s \in 0..1}

\* Documents that exercise the record mapper: one table inside the section.
MapperDocs == {<<TextAvailable, t>> : t \in MapperTables}

\* ------------------------------------------------ specification of from()

InitFrom ==
    /\ nodes \in LocatorDocs \cup MapperDocs
    /\ idx = 1
    /\ st = FromStart
    /\ cur = <<>> /\ prev = <<>> /\ diff = None
    /\ cell = <<>> /\ flat = None
    /\ store = None /\ passes = <<>> /\ sink = <<>>

\* One iteration of the loop of from().
FromIter ==
    /\ st.status = "scan"
    /\ idx <= Len(nodes)
    /\ st' = FromNode(st, nodes[idx])
    /\ idx' = idx + 1
    /\ UNCHANGED <<nodes, diffVars, flatVars, passVars>>

\* The loop is over: from() returns the empty snapshot.
FromEnd ==
    /\ st.status = "scan"
    /\ idx > Len(nodes)
    /\ st' = FromEmpty(st)
    /\ UNCHANGED <<nodes, idx, diffVars, flatVars, passVars>>

NextFrom == FromIter \/ FromEnd

SpecFrom == InitFrom /\ [][NextFrom]_vars

\* ------------------------- specification of get_cell_content_as_string()

RECURSIVE CellsOfSize(_), NodesOfSize(_)
\* The node sequences of n nodes in all, children counted: Text nodes of two
\* values, links, tags and childless other nodes, nested in any way.
CellsOfSize(n) ==
    IF n = 0 THEN {<<>>}
    ELSE UNION {{<<t>> \o f : t \in NodesOfSize(k), f \in CellsOfSize(n - k)} :
                   k \in 1..n}
NodesOfSize(k) ==
    (IF k = 1 THEN {Text("Foo"), Text("x"), Other} ELSE {})
        \cup {Link(c) : c \in CellsOfSize(k - 1)}
        \cup {Tag(c) : c \in CellsOfSize(k - 1)}

CellsUpTo(n) == UNION {CellsOfSize(k) : k \in 0..n}

InitFlat ==
    /\ cell \in CellsUpTo(MaxCellNodes)
    /\ flat = None
    /\ nodes = <<>> /\ idx = 1 /\ st = FromStart
    /\ cur = <<>> /\ prev = <<>> /\ diff = None
    /\ store = None /\ passes = <<>> /\ sink = <<>>

\* The call get_cell_content_as_string(&cell.content).
CallFlatten ==
    /\ flat = None
    /\ flat' = Some(get_cell_content_as_string(cell))
    /\ UNCHANGED <<cell, fromVars, diffVars, passVars>>

NextFlat == CallFlatten

SpecFlat == InitFlat /\ [][NextFlat]_vars

\* ---------------------------------------- specification of difference()

\* Records that differ in one field each, by a value or by absence alone.
CodePool ==
    {NewCode,
     [NewCode EXCEPT !.code = Some("ABC123")],
     [NewCode EXCEPT !.code = Some("ABC123"), !.server = Some("All")],
     [NewCode EXCEPT !.code = Some("ABC123"), !.expires = Some("")]}

Snapshots == SeqsUpTo(CodePool, MaxSnap)

InitDiff ==
    /\ cur \in Snapshots
    /\ prev \in Snapshots
    /\ diff = None
    /\ nodes = <<>> /\ idx = 1 /\ st = FromStart
    /\ cell = <<>> /\ flat = None
    /\ store = None /\ passes = <<>> /\ sink = <<>>

\* The call cur.difference(&prev).
CallDifference ==
    /\ diff = None
    /\ diff' = Some(Difference(cur, prev))
    /\ UNCHANGED <<cur, prev, fromVars, flatVars, passVars>>

NextDiff == CallDifference

SpecDiff == InitDiff /\ [][NextDiff]_vars

\* ------------------------------------ specification of the extraction pass

\* What the fetch and the parser may hand to from(): the scenario document,
\* one with a further row, and one whose table has no rows.
DocA == <<TextAvailable, TableA, TextExpired>>
DocB == <<TextAvailable, TableB>>
DocNoRows == <<TextAvailable, TableNoRows>>
DocPool == {DocA, DocB, DocNoRows}

\* A pass has ended: it returned Ok or Err, or it unwound.
Ended(pass) == pass.pc \in {"ok", "err", "panic"}

Init ==
    /\ store = None
    /\ passes = <<>>
    /\ sink = <<>>
    /\ nodes = <<>> /\ idx = 1 /\ st = FromStart
    /\ cur = <<>> /\ prev = <<>> /\ diff = None
    /\ cell = <<>> /\ flat = None

\* persist::get, as the specification gives it: the snapshot stored for the
\* resource's title, if any.
PersistGet == store

\* persist::set, as the specification gives it: the snapshot replaces the one
\* stored.
PersistSet(snapshot) == Some(snapshot)

\* How many writes the store has taken.
Writes == Cardinality({q \in 1..Len(passes) : passes[q].wrote > 0})

\* Line 155: a pass starts and reads the previous snapshot.  ended records how
\* many of the earlier passes had ended by then; failed will name the
\* collaborator that failed in the pass ("fetch" or "set"), and wrote the
\* place of the pass's write among the writes of the store (0: none yet).
Get ==
    /\ Len(passes) < MaxPasses
    /\ passes' = Append(passes,
          [pc |-> "fetch", previous |-> PersistGet, doc |-> <<>>,
           result |-> <<>>, difference |-> None, failed |-> "", wrote |-> 0,
           ended |-> Cardinality({q \in 1..Len(passes) : Ended(passes[q])})])
    /\ UNCHANGED <<store, sink, fromVars, diffVars, flatVars>>

\* The passes that have started.
Started == 1..Len(passes)

\* Lines 168-189: the request, the body, the JSON or the content fails, and
\* the pass returns Err(WikiError).
FetchErr ==
    \E p \in Started :
        /\ passes[p].pc = "fetch"
        /\ passes' = [passes EXCEPT ![p].pc = "err", ![p].failed = "fetch"]
        /\ UNCHANGED <<store, sink, fromVars, diffVars, flatVars>>

\* Lines 168-192: the document arrives, is parsed and given to from().
Fetch ==
    \E p \in Started : \E d \in DocPool :
        /\ passes[p].pc = "fetch"
        /\ LET r == From(d)
           IN  passes' = [passes EXCEPT
                  ![p].doc = d,
                  ![p].pc = IF r.status = "panic" THEN "panic" ELSE "set",
                  ![p].result = r.codes]
        /\ UNCHANGED <<store, sink, fromVars, diffVars, flatVars>>

\* SetErr without the `?` of line 193: the failure is dropped and the pass
\* goes on to the callback.
SetErrIgnored ==
    \E p \in Started :
        /\ passes[p].pc = "set"
        /\ passes' = [passes EXCEPT ![p].pc = "callback", ![p].failed = "set"]
        /\ UNCHANGED <<store, sink, fromVars, diffVars, flatVars>>

\* Line 193, persist::set fails: the pass returns Err(WikiError).
SetErr ==
    \E p \in Started :
        /\ passes[p].pc = "set"
        /\ passes' = [passes EXCEPT ![p].pc = "err", ![p].failed = "set"]
        /\ UNCHANGED <<store, sink, fromVars, diffVars, flatVars>>

\* Set that leaves a snapshot already in the store where it is.
SetKeepsFirst ==
    \E p \in Started :
        /\ passes[p].pc = "set"
        /\ store' = IF store = None THEN PersistSet(passes[p].result) ELSE store
        /\ passes' = [passes EXCEPT ![p].pc = "callback",
                                    ![p].wrote = Writes + 1]
        /\ UNCHANGED <<sink, fromVars, diffVars, flatVars>>

\* Line 193, persist::set succeeds.
Set ==
    \E p \in Started :
        /\ passes[p].pc = "set"
        /\ store' = PersistSet(passes[p].result)
        /\ passes' = [passes EXCEPT ![p].pc = "callback",
                                    ![p].wrote = Writes + 1]
        /\ UNCHANGED <<sink, fromVars, diffVars, flatVars>>

\* Callback that differences against the snapshot the store holds when the
\* callback runs, not the one the pass read at line 155.
CallbackRereads ==
    \E p \in Started :
        /\ passes[p].pc = "callback"
        /\ LET c == ChangeCallback(PersistGet, passes[p].result)
           IN  /\ passes' = [passes EXCEPT ![p].pc = "ok",
                                           ![p].difference = Some(c.difference)]
               /\ sink' = sink \o [k \in 1..Len(c.printed) |->
                                      [pass |-> p, added |-> c.printed[k]]]
        /\ UNCHANGED <<store, fromVars, diffVars, flatVars>>

\* Callback moved above line 193: it can also run for a pass that has yet to
\* write, and that pass then returns without writing.
CallbackBeforeSet ==
    \E p \in Started :
        /\ passes[p].pc \in {"set", "callback"}
        /\ LET c == ChangeCallback(passes[p].previous, passes[p].result)
           IN  /\ passes' = [passes EXCEPT ![p].pc = "ok",
                                           ![p].difference = Some(c.difference)]
               /\ sink' = sink \o [k \in 1..Len(c.printed) |->
                                      [pass |-> p, added |-> c.printed[k]]]
        /\ UNCHANGED <<store, fromVars, diffVars, flatVars>>

\* Lines 195-197: the callback runs and the pass returns Ok(result).
Callback ==
    \E p \in Started :
        /\ passes[p].pc = "callback"
        /\ LET c == ChangeCallback(passes[p].previous, passes[p].result)
           IN  /\ passes' = [passes EXCEPT ![p].pc = "ok",
                                           ![p].difference = Some(c.difference)]
               /\ sink' = sink \o [k \in 1..Len(c.printed) |->
                                      [pass |-> p, added |-> c.printed[k]]]
        /\ UNCHANGED <<store, fromVars, diffVars, flatVars>>

Next == Get \/ FetchErr \/ Fetch \/ SetErr \/ Set \/ Callback

Spec == Init /\ [][Next]_vars

\* ------------------------------------------ the claims about difference()

\* The positions of current whose record equals no record of previous.
NewPositions(current, previous) ==
    {i \in 1..Len(current) : \A j \in 1..Len(previous) : current[i] # previous[j]}

\* The k-th smallest element of a set of numbers.
Nth(S, k) == CHOOSE i \in S : Cardinality({j \in S : j < i}) = k - 1

\* C1: difference(current, previous) is the records of current that equal no
\* record of previous (all five fields, absence included), each as often as
\* it stands in current and in current's order.
C1_DifferenceExact ==
    diff # None =>
        LET new == NewPositions(cur, prev)
        IN  /\ Len(diff[1]) = Cardinality(new)
            /\ \A k \in 1..Len(diff[1]) : diff[1][k] = cur[Nth(new, k)]

\* difference was called on snapshots that share a record, where a record of
\* current differs from one of previous by the absence of a field alone, and
\* it kept two records.
C1_Witness ==
    /\ diff # None
    /\ Len(diff[1]) = 2 /\ diff[1][1] # diff[1][2]
    /\ \E i \in 1..Len(cur) : \E j \in 1..Len(prev) : cur[i] = prev[j]
    /\ \E i \in 1..Len(cur) : \E j \in 1..Len(prev) :
          /\ cur[i].code = prev[j].code
          /\ cur[i].expires # prev[j].expires
          /\ cur[i].expires = None \/ prev[j].expires = None

\* -------------------------------------- the claims about the extraction pass

\* What the sink received from pass p.
Printed(p) == SelectSeq(sink, LAMBDA e : e.pass = p)

\* C2: the sink is invoked at most once in a pass, never with an empty
\* difference, and only by the callback of a pass with a difference to report.
C2_SinkAtMostOnce ==
    /\ \A p \in Started : Len(Printed(p)) <= 1
    /\ \A k \in 1..Len(sink) : sink[k].added # <<>>
    /\ \A p \in Started :
          passes[p].pc = "ok" =>
              (Len(Printed(p)) = 1 <=> passes[p].difference # Some(<<>>))
    /\ \A p \in Started : passes[p].pc # "ok" => Printed(p) = <<>>

\* One pass has returned Ok after printing and another after computing an
\* empty difference, which it did not print.
C2_Witness ==
    \E p, q \in Started :
        /\ passes[p].pc = "ok" /\ Len(Printed(p)) = 1
        /\ passes[q].pc = "ok" /\ passes[q].difference = Some(<<>>)
        /\ Printed(q) = <<>>

\* The first two passes were successive and successful and saw the same
\* document, whose table has a data row.
TwoRuns ==
    /\ Len(passes) >= 2
    /\ passes[1].pc = "ok" /\ passes[2].pc = "ok"
    /\ passes[2].ended = 1
    /\ passes[1].doc = passes[2].doc
    /\ passes[1].result # <<>>

\* C3: with nothing persisted at the start, of two successive successful
\* passes over the same document the first computes its whole snapshot as the
\* difference and prints it, the second computes an empty difference and
\* prints nothing.
C3_SecondRunSilent ==
    TwoRuns =>
        /\ passes[1].previous = None
        /\ passes[1].difference = Some(passes[1].result)
        /\ Printed(1) = <<[pass |-> 1, added |-> passes[1].result]>>
        /\ passes[2].difference = Some(<<>>)
        /\ Printed(2) = <<>>

\* The two runs of C3 took place, over the document with two data rows.
C3_Witness == TwoRuns /\ passes[1].doc = DocB

\* ------------------------------------------------ the claims about from()

\* A top-level Text node that bears a section marker.
IsMarker(node) ==
    /\ node.kind = "Text"
    /\ Contains(node.value, AVAILABLE) \/ Contains(node.value, EXPIRED)

\* Whether node i of ns lies inside the target section: the marker-bearing
\* Text node nearest before it holds the start marker and not the end marker.
InsideBefore(ns, i) ==
    LET M == {j \in 1..(i - 1) : IsMarker(ns[j])}
    IN  /\ M # {}
        /\ LET j == CHOOSE j \in M : \A k \in M : k <= j
           IN  Contains(ns[j].value, AVAILABLE) /\ ~Contains(ns[j].value, EXPIRED)

\* The tables of ns that lie inside the target section.
Eligible(ns) == {i \in 1..Len(ns) : ns[i].kind = "Table" /\ InsideBefore(ns, i)}
FirstEligible(ns) == CHOOSE i \in Eligible(ns) : \A k \in Eligible(ns) : i <= k

NoStartMarker(ns) ==
    \A i \in 1..Len(ns) : ns[i].kind = "Text" => ~Contains(ns[i].value, AVAILABLE)

\* C4: when no top-level Text node holds the start marker, from() selects no
\* table (it never leaves the loop through a table, and its flag stays unset)
\* and returns the empty snapshot, whatever tables the sequence holds.
C4_NoStartMarkerEmpty ==
    NoStartMarker(nodes) =>
        /\ st.status \in {"scan", "none"}
        /\ ~st.after_available
        /\ st.codes = <<>>

\* from() has returned for a sequence without start marker that holds a table
\* with a data row.
C4_Witness ==
    /\ NoStartMarker(nodes)
    /\ st.status = "none"
    /\ \E i \in 1..Len(nodes) : nodes[i] = TableA

\* C5: from() leaves the loop at the first table that lies inside the section:
\* the snapshot returned is that table's, the scan takes no further step, and
\* the result is that of the sequence cut after the table, so that no later
\* node has a say; it runs to the end only when no table lies inside.
C5_FirstTableWins ==
    /\ st.status = "table" =>
          /\ Eligible(nodes) # {}
          /\ idx - 1 = FirstEligible(nodes)
          /\ st.codes = MapTable(nodes[idx - 1].rows).codes
          /\ From(SubSeq(nodes, 1, idx - 1)).codes = st.codes
          /\ ~ENABLED (FromIter \/ FromEnd)
    /\ st.status = "none" => Eligible(nodes) = {}

\* from() has returned a table's snapshot while a different table and a
\* marker follow it.
C5_Witness ==
    /\ st.status = "table"
    /\ \E j \in idx..Len(nodes) :
          nodes[j].kind = "Table" /\ nodes[j] # nodes[idx - 1]
    /\ \E j \in idx..Len(nodes) : IsMarker(nodes[j])

\* C6: during the scan the flag is set exactly when the nearest marker-bearing
\* Text node before the current node holds the start marker and not the end
\* marker (unset at the first node), whatever other nodes lie between; and the
\* scan ends at a node only if it is a Table met with the flag set.
C6_LocatorState ==
    /\ st.status = "scan" => st.after_available = InsideBefore(nodes, idx)
    /\ st.status \in {"table", "panic"} =>
          /\ nodes[idx - 1].kind = "Table"
          /\ InsideBefore(nodes, idx - 1)

\* The scan stands at a table inside the section, after an end marker, a
\* later start marker and a node that is neither Text nor Table.
C6_Witness ==
    /\ st.status = "scan" /\ idx <= Len(nodes)
    /\ nodes[idx].kind = "Table"
    /\ st.after_available
    /\ \E j, k \in 1..(idx - 1) :
          /\ j < k
          /\ nodes[j] = TextExpired
          /\ nodes[k] = TextAvailable
    /\ nodes[idx - 1] = Other

\* No data row of any table of ns is wider than the table's header row.
NoWideRow(ns) ==
    \A i \in 1..Len(ns) :
        ns[i].kind = "Table" =>
            \A r \in 2..Len(ns[i].rows) :
                Len(ns[i].rows[r].cells) <= Len(ns[i].rows[1].cells)

\* C7: when no data row is wider than its header row, from() does not fault,
\* also for a table without rows, and what it returns after finding no table
\* inside the section is the empty snapshot.
C7_NoFault ==
    NoWideRow(nodes) =>
        /\ st.status # "panic"
        /\ st.status = "none" => st.codes = <<>>

\* rows with every data row cut to the width of the header row.
ClipRows(rows) ==
    [r \in 1..Len(rows) |->
        Row(SubSeq(rows[r].cells, 1,
                   IF Len(rows[r].cells) <= Len(rows[1].cells)
                   THEN Len(rows[r].cells) ELSE Len(rows[1].cells)))]

\* C8: once from() has met a table with a header row inside the section, it
\* has returned, with the records of the table whose rows are cut to the
\* header's width: cells beyond the header are ignored.
C8_WideRowIgnored ==
    (st.status \in {"table", "panic"} /\ nodes[idx - 1].rows # <<>>) =>
        /\ st.status = "table"
        /\ st.codes = MapTable(ClipRows(nodes[idx - 1].rows)).codes

Fields == {"code", "server", "reward", "discovered", "expires"}
HeaderOf ==
    [code |-> "Code", server |-> "Server", reward |-> "Reward",
     discovered |-> "Discovered", expires |-> "Expires"]

Distinct(seq) == \A i, j \in 1..Len(seq) : seq[i] = seq[j] => i = j

\* The field f of the record of data row `row` under `headers`, read off the
\* column named for f.
FieldOf(headers, row, f) ==
    LET cols == {i \in 1..Len(headers) :
                    headers[i] = HeaderOf[f] /\ i <= Len(row.cells)}
    IN  IF cols = {} THEN None
        ELSE Some(get_cell_content_as_string(
                      row.cells[CHOOSE i \in cols : TRUE].content))

\* C9: for a located table with pairwise distinct header names, the snapshot
\* has one record per data row and each field is the flattened cell of the
\* column its header names, absent when there is no such column or the row
\* ends before it; the scenario table yields its one record.
C9_RecordFields ==
    /\ st.status = "table" =>
          LET rows == nodes[idx - 1].rows
              headers == Headers(rows[1])
          IN  Distinct(headers) =>
                /\ Len(st.codes) = Len(rows) - 1
                /\ \A r \in 1..Len(st.codes) : \A f \in Fields :
                      st.codes[r][f] = FieldOf(headers, rows[r + 1], f)
    /\ (st.status = "table" /\ nodes[idx - 1] = TableA) =>
          st.codes = <<[code |-> Some("ABC123"), server |-> Some("All"),
                        reward |-> Some("Primogems x5"),
                        discovered |-> None, expires |-> None]>>

\* A table with distinct header names was mapped: one row ends before a
\* recognized column, and one field is a present empty string.
C9_Witness ==
    /\ st.status = "table"
    /\ LET rows == nodes[idx - 1].rows
           headers == Headers(rows[1])
       IN  /\ Distinct(headers)
           /\ \E r \in 2..Len(rows) : \E i \in 1..Len(headers) :
                 /\ Len(rows[r].cells) < i
                 /\ \E f \in Fields : headers[i] = HeaderOf[f]
           /\ \E r \in 1..Len(st.codes) : \E f \in Fields :
                 st.codes[r][f] = Some("")

\* The permutations of 1..n.
Perms(n) == {p \in [1..n -> 1..n] : \A i, j \in 1..n : p[i] = p[j] => i = j}

\* rows with the columns of every row rearranged by p.
PermuteTable(rows, p) ==
    [r \in 1..Len(rows) |-> Row([i \in 1..Len(p) |-> rows[r].cells[p[i]]])]

EqualWidth(rows) ==
    /\ rows # <<>>
    /\ \A r \in 1..Len(rows) : Len(rows[r].cells) = Len(rows[1].cells)

PermutationInvariant(rows) ==
    \A p \in Perms(Len(rows[1].cells)) :
        LET m == MapTable(PermuteTable(rows, p))
        IN  m.status = "table" /\ m.codes = st.codes

\* C10 as stated: for a located table whose rows all have the header's width,
\* rearranging the columns of the header and of every data row together
\* leaves the records as they are, also when a header text is repeated.
C10_AnyHeaders ==
    (st.status = "table" /\ EqualWidth(nodes[idx - 1].rows)) =>
        PermutationInvariant(nodes[idx - 1].rows)

\* No recognized header text names more than one column.
NoRepeatedField(headers) ==
    \A i, j \in 1..Len(headers) :
        (headers[i] = headers[j] /\ i # j) =>
            \A f \in Fields : headers[i] # HeaderOf[f]

\* C10 amended: the same, for tables in which no recognized header text names
\* more than one column.
C10_HeaderOrderIndependent ==
    (/\ st.status = "table"
     /\ EqualWidth(nodes[idx - 1].rows)
     /\ NoRepeatedField(Headers(nodes[idx - 1].rows[1]))) =>
        PermutationInvariant(nodes[idx - 1].rows)

\* A table of two differently named recognized columns and a data row of
\* that width was mapped.
C10_Witness ==
    /\ st.status = "table"
    /\ EqualWidth(nodes[idx - 1].rows)
    /\ LET headers == Headers(nodes[idx - 1].rows[1])
       IN  /\ Len(headers) >= 2
           /\ headers[1] # headers[2]
           /\ \A i \in 1..Len(headers) : \E f \in Fields : headers[i] = HeaderOf[f]
    /\ Len(st.codes) >= 1


\* The header texts from() recognizes.
Recognized == {HeaderOf[f] : f \in Fields}

\* seq without its element at position c (seq itself when it is shorter).
RemoveAt(seq, c) ==
    IF c > Len(seq) THEN seq
    ELSE SubSeq(seq, 1, c - 1) \o SubSeq(seq, c + 1, Len(seq))

\* seq with x put at position c (seq itself when it ends before c - 1).
InsertAt(seq, c, x) ==
    IF c > Len(seq) + 1 THEN seq
    ELSE SubSeq(seq, 1, c - 1) \o <<x>> \o SubSeq(seq, c, Len(seq))

\* rows without column c, and rows with a column put at position c, headed by
\* header cell h and holding cell x in every data row that reaches it.
RemoveColumn(rows, c) == [r \in 1..Len(rows) |-> Row(RemoveAt(rows[r].cells, c))]
InsertColumn(rows, c, h, x) ==
    [r \in 1..Len(rows) |->
        Row(InsertAt(rows[r].cells, c, IF r = 1 THEN h ELSE x))]

\* Header texts that are none of the five names, some only just.
UnrecognizedTexts == {"Notes", "code", "Code ", "Codes", ""}

\* C11: a column whose header text is not exactly one of the five names
\* assigns no field: the records of a located table are those of the table
\* without such a column and those of the table with such a column added at
\* any position, and neither extraction fails.
C11_UnrecognizedIgnored ==
    st.status = "table" =>
        LET rows == nodes[idx - 1].rows
            headers == Headers(rows[1])
        IN  /\ \A c \in 1..Len(headers) :
                  headers[c] \notin Recognized =>
                      LET m == MapTable(RemoveColumn(rows, c))
                      IN  m.status = "table" /\ m.codes = st.codes
            /\ \A c \in 1..(Len(headers) + 1) : \A t \in UnrecognizedTexts :
                  LET m == MapTable(InsertColumn(rows, c, Cell(<<Text(t)>>),
                                                 Cell(<<Text("Z9")>>)))
                  IN  m.status = "table" /\ m.codes = st.codes

\* A table was mapped whose unrecognized column comes before a recognized
\* one, with a data row that has a cell in both.
C11_Witness ==
    /\ st.status = "table"
    /\ LET rows == nodes[idx - 1].rows
           headers == Headers(rows[1])
       IN  /\ Len(headers) = 2
           /\ headers[1] \notin Recognized
           /\ headers[2] \in Recognized
           /\ \E r \in 2..Len(rows) : Len(rows[r].cells) = 2
    /\ \E r \in 1..Len(st.codes) : st.codes[r] # NewCode


\* ------------------------------------------ the claims about the flattener

RECURSIVE Splice(_)
\* ns with every Link at its top level replaced by the link's display
\* content, in place.
Splice(ns) ==
    IF ns = <<>> THEN <<>>
    ELSE Splice(SubSeq(ns, 1, Len(ns) - 1)) \o
         (IF ns[Len(ns)].kind = "Link" THEN ns[Len(ns)].text ELSE <<ns[Len(ns)]>>)

RECURSIVE SpliceAll(_)
\* ns with links opened until none is left at the top level: the nodes at the
\* top level or inside display content at any depth, in document order.
SpliceAll(ns) ==
    IF \E i \in 1..Len(ns) : ns[i].kind = "Link" THEN SpliceAll(Splice(ns)) ELSE ns

RECURSIVE ValuesUpTo(_, _)
\* The values of the first k nodes of a sequence of Text nodes, joined.
ValuesUpTo(texts, k) ==
    IF k = 0 THEN "" ELSE ValuesUpTo(texts, k - 1) \o texts[k].value

\* What a reader sees of a cell.
Visible(ns) ==
    LET texts == SelectSeq(SpliceAll(ns), LAMBDA n : n.kind = "Text")
    IN  ValuesUpTo(texts, Len(texts))

\* C12: the flattener returns the values of the Text nodes at the cell's top
\* level or inside Link display content at any depth, joined in document
\* order with nothing between them; other variants and what they hold give
\* nothing, and the link of the specification's example flattens to "Foo".
C12_FlattenVisibleText ==
    flat # None =>
        /\ flat[1] = Visible(cell)
        /\ cell = <<Link(<<Text("Foo")>>)>> => flat[1] = "Foo"

\* A cell was flattened that holds a Text in a link in a link, followed by a
\* Text at the top level.
C12_Witness ==
    /\ flat = Some("Foox")
    /\ Len(cell) = 2
    /\ cell[1].kind = "Link"
    /\ cell[1].text # <<>> /\ cell[1].text[1].kind = "Link"
    /\ cell[2] = Text("x")


\* ------------------------------- the algebraic claims about difference()

\* C13: the difference of a snapshot against itself is empty, repeated equal
\* records included.
C13_SelfDifferenceEmpty ==
    (diff # None /\ cur = prev) => diff[1] = <<>>

\* A snapshot of three records, two of them equal, was differenced against
\* itself.
C13_Witness ==
    /\ diff = Some(<<>>)
    /\ cur = prev
    /\ Len(cur) = 3
    /\ cur[1] = cur[3] /\ cur[1] # cur[2]

\* C14: the difference of a snapshot against the empty snapshot is the
\* snapshot itself, record for record, and the callback given no previous
\* snapshot takes the whole current snapshot as its difference, as it does
\* given an empty previous snapshot.
C14_DifferenceAgainstEmpty ==
    (diff # None /\ prev = <<>>) =>
        /\ diff[1] = cur
        /\ ChangeCallback(None, cur).difference = cur
        /\ ChangeCallback(None, cur) = ChangeCallback(Some(prev), cur)

\* A snapshot of three records, two of them equal, was differenced against
\* the empty snapshot.
C14_Witness ==
    /\ diff # None
    /\ prev = <<>>
    /\ Len(cur) = 3
    /\ cur[1] = cur[2] /\ cur[1] # cur[3]
    /\ Len(diff[1]) = 3


\* ---------------------------------------- the claims about failing passes

\* A pass in which a collaborator failed has returned Err, has computed no
\* difference and has not invoked the sink; after a failed fetch it has not
\* written the store either.
FailedPassSilent ==
    \A p \in Started :
        passes[p].failed # "" =>
            /\ passes[p].pc = "err"
            /\ passes[p].difference = None
            /\ Printed(p) = <<>>
            /\ passes[p].failed = "fetch" => passes[p].wrote = 0

\* The step in which a pass returns Err touches neither the store nor the
\* sink, and a pass that has returned Err takes no further step.
FailedPassStops ==
    \A p \in Started :
        /\ (passes[p].pc # "err" /\ passes'[p].pc = "err") =>
               (store' = store /\ sink' = sink)
        /\ passes[p].pc = "err" => passes'[p] = passes[p]

\* C15: when the fetch, the decoding or the store write of a pass fails, the
\* pass returns the failure and is not retried; after a failed fetch or
\* decoding the store is not written and the sink not invoked, after a failed
\* write the sink is not invoked.
C15_FailureSurfaced == []FailedPassSilent /\ [][FailedPassStops]_vars

\* One pass succeeded and printed, a later one failed at the fetch and a third
\* at the write; the store still holds the first pass's snapshot.
C15_Witness ==
    /\ Len(passes) = 3
    /\ passes[1].pc = "ok" /\ Len(Printed(1)) = 1
    /\ passes[2].failed = "fetch"
    /\ passes[3].failed = "set" /\ passes[3].result # passes[1].result
    /\ store = Some(passes[1].result)
    /\ Len(sink) = 1


\* ------------------------------------ the claims about the order of a pass

NotIn(prior, r) == \A j \in 1..Len(prior) : prior[j] # r

\* The records of result that prior lacks, in the order of result.
NewRecords(result, prior) == SelectSeq(result, LAMBDA r : NotIn(prior, r))

\* Every pass started after all earlier passes had ended.
Sequential == \A p \in Started : passes[p].ended = p - 1

\* The successful passes before pass p.
EarlierOk(p) == {q \in 1..(p - 1) : passes[q].pc = "ok"}

Greatest(S) == CHOOSE m \in S : \A x \in S : x <= m

\* The snapshot of the latest successful pass before pass p, if any.
PriorOf(p) ==
    IF EarlierOk(p) = {} THEN None
    ELSE Some(passes[Greatest(EarlierOk(p))].result)

\* C17: over non-overlapping passes, the store holds the snapshot of the
\* latest earlier successful pass (or none) until a pass writes and that
\* pass's snapshot afterwards, and each pass's difference is computed against
\* the snapshot the store held before its write.
C17_SequentialPasses ==
    Sequential =>
        \A p \in Started :
            /\ passes[p].previous = PriorOf(p)
            /\ passes[p].pc = "ok" =>
                   passes[p].difference =
                       Some(IF PriorOf(p) = None THEN passes[p].result
                            ELSE NewRecords(passes[p].result, PriorOf(p)[1]))
            /\ p = Len(passes) =>
                   store = IF passes[p].pc \in {"callback", "ok"}
                           THEN Some(passes[p].result)
                           ELSE PriorOf(p)

\* Three passes ran one after another: the first stored the one-row snapshot,
\* the second failed, the third read the first's snapshot, stored the two-row
\* snapshot in its place and reported the second row alone.
C17_Witness ==
    /\ Sequential
    /\ Len(passes) = 3
    /\ passes[1].pc = "ok" /\ passes[1].doc = DocA
    /\ passes[2].pc = "err"
    /\ passes[3].pc = "ok" /\ passes[3].doc = DocB
    /\ passes[3].previous = Some(passes[1].result)
    /\ passes[3].difference = Some(<<passes[3].result[2]>>)
    /\ store = Some(passes[3].result)

\* The passes that have written, and the one that wrote last.
Writers == {p \in Started : passes[p].wrote > 0}
LastWriter == CHOOSE p \in Writers : passes[p].wrote = Writes

\* C18: the read, the difference and the write of a pass are separate steps
\* that other passes may come between.  Two successful passes that read the
\* same prior snapshot each report every record of their own snapshot that
\* the prior one lacks, so a record new to both is reported by both; and the
\* store holds the snapshot of the pass that wrote last, whichever it is.
C18_OverlappingPasses ==
    /\ store = IF Writers = {} THEN None ELSE Some(passes[LastWriter].result)
    /\ \A p, q \in Started :
          (/\ p # q
           /\ passes[p].pc = "ok" /\ passes[q].pc = "ok"
           /\ passes[p].previous = passes[q].previous) =>
              LET prior == IF passes[p].previous = None THEN <<>>
                           ELSE passes[p].previous[1]
              IN  \A i \in 1..Len(passes[p].result) :
                      LET r == passes[p].result[i]
                      IN  (NotIn(prior, r) /\ ~NotIn(passes[q].result, r)) =>
                              /\ Len(Printed(p)) = 1 /\ Len(Printed(q)) = 1
                              /\ ~NotIn(Printed(p)[1].added, r)
                              /\ ~NotIn(Printed(q)[1].added, r)

\* The second pass started before the first had ended; both read an empty
\* store, both reported the record ABC123 as new, and the store holds the
\* snapshot of the first pass, which wrote last, not the second's.
C18_Witness ==
    /\ Len(passes) >= 2
    /\ passes[2].ended = 0
    /\ passes[1].pc = "ok" /\ passes[2].pc = "ok"
    /\ passes[1].previous = None /\ passes[2].previous = None
    /\ passes[1].doc = DocA /\ passes[2].doc = DocB
    /\ Len(Printed(1)) = 1 /\ Len(Printed(2)) = 1
    /\ Printed(1)[1].added[1] = Printed(2)[1].added[1]
    /\ Printed(1)[1].added[1].code = Some("ABC123")
    /\ passes[1].wrote = 2 /\ passes[2].wrote = 1
    /\ store = Some(passes[1].result)
    /\ passes[1].result # passes[2].result


\* ------------------------------------------ the claims about the row mapping

\* The field f of the record of data row `row` under `headers`: the flattened
\* cell of the last column named for f that the row reaches.
LastFieldOf(headers, row, f) ==
    LET cols == {i \in 1..Len(headers) :
                    headers[i] = HeaderOf[f] /\ i <= Len(row.cells)}
    IN  IF cols = {} THEN None
        ELSE Some(get_cell_content_as_string(row.cells[Greatest(cols)].content))

\* The data row has no cell under a recognized header.
Blank(headers, row) ==
    \A i \in 1..Len(row.cells) : i <= Len(headers) => headers[i] \notin Recognized

\* C19: a located table gives one record per row after the first, in the
\* order of the rows; a data row with no cells, or with cells under
\* unrecognized headers only, gives a record with every field absent.
C19_OneRecordPerRow ==
    st.status = "table" =>
        LET rows == nodes[idx - 1].rows
            headers == Headers(rows[1])
        IN  /\ Len(st.codes) = Len(rows) - 1
            /\ \A r \in 1..Len(st.codes) :
                  /\ \A f \in Fields :
                        st.codes[r][f] = LastFieldOf(headers, rows[r + 1], f)
                  /\ Blank(headers, rows[r + 1]) => st.codes[r] = NewCode

\* A table of two data rows was mapped: the first set a field, the second has
\* a cell and none under a recognized header, and its all-absent record is
\* the second of the snapshot.
C19_Witness ==
    /\ st.status = "table"
    /\ LET rows == nodes[idx - 1].rows
           headers == Headers(rows[1])
       IN  /\ Len(rows) = 3
           /\ ~Blank(headers, rows[2])
           /\ rows[3].cells # <<>> /\ Blank(headers, rows[3])
           /\ Len(st.codes) = 2
           /\ st.codes[1] # NewCode /\ st.codes[2] = NewCode


\* ------------------------------- the claim about a text with both markers

\* A top-level Text node whose value holds both markers.
IsBoth(node) ==
    /\ node.kind = "Text"
    /\ Contains(node.value, AVAILABLE)
    /\ Contains(node.value, EXPIRED)

\* C20: after a top-level Text node whose value holds both markers the
\* locator is outside the section, whatever it was before and whichever
\* marker comes first in the value, and a table directly after such a node is
\* not selected.
C20_BothMarkersOutside ==
    /\ (st.status = "scan" /\ idx > 1 /\ IsBoth(nodes[idx - 1])) =>
           ~st.after_available
    /\ (st.status \in {"table", "panic"} /\ idx > 2) => ~IsBoth(nodes[idx - 2])
    /\ \A i \in 1..Len(nodes) :
          IsBoth(nodes[i]) =>
              \A b \in BOOLEAN : ~AfterText(b, nodes[i].value)

\* Inside the section, the scan met a Text with the end marker before the
\* start marker and then a table with a data row, which it passed over.
C20_Witness ==
    /\ st.status = "scan" /\ idx = 4
    /\ nodes[1] = TextAvailable
    /\ nodes[2] = TextBothEA
    /\ nodes[3] = TableA
    /\ ~st.after_available

=============================================================================
